---- MODULE Spec2Model ----
(***************************************************************************)
(* METAR to Lattice integration: the flight-condition classifier, the      *)
(* disposition mapping and the reconciliation loop.                        *)
(*                                                                         *)
(* Two variants of the program live in the repository and both are         *)
(* modelled; the variable `variant` says which one is running:             *)
(*   "base"     src/metar_lattice_integration.py                           *)
(*              (LatticeWeatherIntegration.run_integration)                *)
(*   "modified" src/WIP-prompt 2/metar_lattice_integration_modified_2.py   *)
(*              (LatticeWeatherIntegration.start)                          *)
(*                                                                         *)
(* Units: visibility is held in quarters of a statute mile (METAR reports  *)
(* 1/4, 1/2, 3/4 ...), ceilings in feet, durations in seconds.  A Python   *)
(* Optional is the empty sequence (None) or a one-element sequence.        *)
(*                                                                         *)
(* Time passes only in the two sleeps of the loop; the calls of a cycle    *)
(* take no time.  The sink is an external service: the model records the   *)
(* unexpired entities it holds for one station, `watched`, which Init      *)
(* picks among the stations.                                               *)
(***************************************************************************)
EXTENDS Integers, Sequences, FiniteSets, TLC

None == <<>>

Some(x) == <<x>>

IsNone(o) == o = <<>>

Val(o) == o[1]

\* statute miles -> the model's visibility unit (quarter miles)
Miles(m) == 4 * m

\* ------------------------------------------------------------------------
\* Bounds of the model
\* ------------------------------------------------------------------------

\* largest visibility input, in quarter miles (44 = 11 SM)
MaxVisibility == 44

\* largest ceiling input, in hundreds of feet (51 = 5100 ft)
MaxCeilingHundreds == 51

\* unexpected exceptions the environment may raise in one run
MaxExceptions == 1

\* largest temperature input, in degrees Celsius, on either side of zero
MaxTemperature == 45

\* largest wind speed input, in knots
MaxWindSpeed == 35

\* latest clock reading at which an entity is built, in seconds
MaxClock == 3

\* most cloud layers in a report
MaxLayers == 2

\* ------------------------------------------------------------------------
\* FlightConditions
\* ------------------------------------------------------------------------

\* `if ceiling_feet is None: ceiling_feet = 10000`
CeilingOrUnlimited(ceiling) ==
    IF IsNone(ceiling) THEN 10000 ELSE Val(ceiling)

\* a slip of the comparison operator: thresholds included in the worse band
determine_flight_conditions_inclusive(visibility, ceiling) ==
    LET c == CeilingOrUnlimited(ceiling) IN
    IF c <= 500 \/ visibility <= Miles(1) THEN "LIFR"
    ELSE IF c <= 1000 \/ visibility <= Miles(3) THEN "IFR"
    ELSE IF c <= 3000 \/ visibility <= Miles(5) THEN "MVFR"
    ELSE "VFR"

\* a slip of the connective: both dimensions needed to downgrade
determine_flight_conditions_and(visibility, ceiling) ==
    LET c == CeilingOrUnlimited(ceiling) IN
    IF c < 500 /\ visibility < Miles(1) THEN "LIFR"
    ELSE IF c < 1000 /\ visibility < Miles(3) THEN "IFR"
    ELSE IF c < 3000 /\ visibility < Miles(5) THEN "MVFR"
    ELSE "VFR"

\* a slip of the default: an absent ceiling read as 0 ft instead of 10000 ft
determine_flight_conditions_grounded(visibility, ceiling) ==
    LET c == IF IsNone(ceiling) THEN 0 ELSE Val(ceiling) IN
    IF c < 500 \/ visibility < Miles(1) THEN "LIFR"
    ELSE IF c < 1000 \/ visibility < Miles(3) THEN "IFR"
    ELSE IF c < 3000 \/ visibility < Miles(5) THEN "MVFR"
    ELSE "VFR"

\* FlightConditions.determine_flight_conditions(visibility_miles, ceiling_feet)
determine_flight_conditions(visibility, ceiling) ==
    LET c == CeilingOrUnlimited(ceiling) IN
    IF c < 500 \/ visibility < Miles(1) THEN "LIFR"
    ELSE IF c < 1000 \/ visibility < Miles(3) THEN "IFR"
    ELSE IF c < 3000 \/ visibility < Miles(5) THEN "MVFR"
    ELSE "VFR"

\* a slip of the default branch: unrecognised categories fall to SUSPICIOUS
get_disposition_for_condition_lenient(condition) ==
    IF condition = "VFR" THEN "ASSUMED_FRIENDLY"
    ELSE IF condition \in {"IFR", "LIFR"} THEN "HOSTILE"
    ELSE "SUSPICIOUS"

\* FlightConditions.get_disposition_for_condition(flight_condition)
get_disposition_for_condition(condition) ==
    IF condition = "VFR" THEN "ASSUMED_FRIENDLY"
    ELSE IF condition = "MVFR" THEN "SUSPICIOUS"
    ELSE "HOSTILE"

\* Python's `x or 10.0` on an Optional[float]: None and 0.0 are both falsy
VisibilityOrDefault(vis) ==
    IF IsNone(vis) \/ Val(vis) = 0
    THEN Miles(10)
    ELSE Val(vis)

\* the flight condition an observation is given when it is parsed:
\* determine_flight_conditions(visibility_miles or 10.0, ceiling_feet)
ObservedCondition(vis, ceiling) ==
    determine_flight_conditions(VisibilityOrDefault(vis), ceiling)

\* ------------------------------------------------------------------------
\* HealthEvaluator (modified variant): one banding function per parameter.
\* The results carry the names of the members of HealthStatus the code
\* returns.
\* ------------------------------------------------------------------------

\* a slip that forgets the last category branch
get_health_status_for_condition_partial(condition) ==
    IF condition = "VFR" THEN "HEALTHY"
    ELSE IF condition = "MVFR" THEN "WARN"
    ELSE IF condition = "IFR" THEN "FAIL"
    ELSE "OFFLINE"

\* LatticeWeatherIntegration._get_health_status_for_condition(condition)
get_health_status_for_condition(condition) ==
    IF condition = "VFR" THEN "HEALTHY"
    ELSE IF condition = "MVFR" THEN "WARN"
    ELSE IF condition = "IFR" THEN "FAIL"
    ELSE IF condition = "LIFR" THEN "FAIL"
    ELSE "OFFLINE"

\* a slip of the comparison operator: thresholds included in the worse band
get_health_status_for_temperature_inclusive(temp_c) ==
    IF temp_c <= -20 \/ temp_c >= 40 THEN "FAIL"
    ELSE IF temp_c <= -10 \/ temp_c >= 35 THEN "WARN"
    ELSE "HEALTHY"

\* a slip that bands the cold side only
get_health_status_for_temperature_cold(temp_c) ==
    IF temp_c < -20 THEN "FAIL"
    ELSE IF temp_c < -10 THEN "WARN"
    ELSE "HEALTHY"

\* LatticeWeatherIntegration._get_health_status_for_temperature(temp_c)
get_health_status_for_temperature(temp_c) ==
    IF temp_c < -20 \/ temp_c > 40 THEN "FAIL"
    ELSE IF temp_c < -10 \/ temp_c > 35 THEN "WARN"
    ELSE "HEALTHY"

\* a slip of the comparison operator: thresholds included in the worse band
get_health_status_for_wind_inclusive(wind_kt) ==
    IF wind_kt >= 30 THEN "ERROR"
    ELSE IF wind_kt >= 15 THEN "WARN"
    ELSE "HEALTHY"

\* LatticeWeatherIntegration._get_health_status_for_wind(wind_kt); this one
\* returns HealthStatus.ERROR where the other three return HealthStatus.FAIL
get_health_status_for_wind(wind_kt) ==
    IF wind_kt > 30 THEN "ERROR"
    ELSE IF wind_kt > 15 THEN "WARN"
    ELSE "HEALTHY"

\* a slip of the comparison operator: thresholds included in the worse band
get_health_status_for_visibility_inclusive(visibility) ==
    IF visibility <= Miles(1) THEN "FAIL"
    ELSE IF visibility <= Miles(5) THEN "WARN"
    ELSE "HEALTHY"

\* LatticeWeatherIntegration._get_health_status_for_visibility(visibility_miles)
get_health_status_for_visibility(visibility) ==
    IF visibility < Miles(1) THEN "FAIL"
    ELSE IF visibility < Miles(5) THEN "WARN"
    ELSE "HEALTHY"

\* ComponentHealth(id=..., name=..., health=...)
ComponentHealth(id, name, health) == [id |-> id, name |-> name, health |-> health]

\* `[component] if present else []`
AppendIf(present, component) == IF present THEN <<component>> ELSE <<>>

\* a slip that tests the values for truth instead of `is not None`: a
\* temperature of 0, a calm wind and a visibility of 0 lose their component
health_components_truthy(icao, fc, temp, wind, vis) ==
    AppendIf(fc # "",
             ComponentHealth(<<icao, "flight_condition">>, "Flight Condition",
                             get_health_status_for_condition(fc)))
    \o AppendIf(~IsNone(temp) /\ temp # Some(0),
                ComponentHealth(<<"Entity.entity_id">>, "Temperature",
                    IF IsNone(temp) THEN "" ELSE get_health_status_for_temperature(Val(temp))))
    \o AppendIf(~IsNone(wind) /\ wind # Some(0),
                ComponentHealth(<<"Entity.entity_id">>, "Wind Speed",
                    IF IsNone(wind) THEN "" ELSE get_health_status_for_wind(Val(wind))))
    \o AppendIf(~IsNone(vis) /\ vis # Some(0),
                ComponentHealth(<<"Entity.entity_id">>, "Visibility",
                    IF IsNone(vis) THEN "" ELSE get_health_status_for_visibility(Val(vis))))

\* create_weather_entity, lines 502-573: the list health_components. The
\* first component has the id f"{icao}_flight_condition"; the other three
\* are given the class attribute Entity.entity_id as their id
health_components(icao, fc, temp, wind, vis) ==
    AppendIf(fc # "",
             ComponentHealth(<<icao, "flight_condition">>, "Flight Condition",
                             get_health_status_for_condition(fc)))
    \o AppendIf(~IsNone(temp),
                ComponentHealth(<<"Entity.entity_id">>, "Temperature",
                    IF IsNone(temp) THEN "" ELSE get_health_status_for_temperature(Val(temp))))
    \o AppendIf(~IsNone(wind),
                ComponentHealth(<<"Entity.entity_id">>, "Wind Speed",
                    IF IsNone(wind) THEN "" ELSE get_health_status_for_wind(Val(wind))))
    \o AppendIf(~IsNone(vis),
                ComponentHealth(<<"Entity.entity_id">>, "Visibility",
                    IF IsNone(vis) THEN "" ELSE get_health_status_for_visibility(Val(vis))))

\* severity of a band, for the comparison of bands
Severity(health) ==
    IF health = "HEALTHY" THEN 0
    ELSE IF health = "WARN" THEN 1
    ELSE IF health \in {"FAIL", "ERROR"} THEN 2
    ELSE 3

\* a slip that takes the worst band of the components as the overall health
overall_health_status_worst(fc, components) ==
    LET worst == CHOOSE i \in 1..Len(components) :
                    \A j \in 1..Len(components) :
                        Severity(components[j].health) <= Severity(components[i].health)
    IN  IF components = <<>> THEN get_health_status_for_condition(fc)
        ELSE components[worst].health

\* create_weather_entity, line 576:
\* overall_health_status = self._get_health_status_for_condition(flight_condition)
overall_health_status(fc, components) == get_health_status_for_condition(fc)

\* ------------------------------------------------------------------------
\* Static reference data and program constants
\* ------------------------------------------------------------------------

\* NewEnglandAirports.AIRPORTS, cut to its first two stations; the order is
\* the iteration order of list(self.airports.keys())
ICAO_CODES == <<"KBOS", "KORH">>

Stations == {ICAO_CODES[i] : i \in 1..Len(ICAO_CODES)}

\* run_integration(update_interval_minutes=30) / __init__(update_interval_minutes=30)
update_interval_minutes == 30

\* asyncio.sleep(update_interval_minutes * 60)
IntervalSeconds == update_interval_minutes * 60

\* asyncio.sleep(300)  # Wait 5 minutes before retrying
RecoverySeconds == 300

\* timedelta(hours=2)
ExpiryHours == 2

TtlSeconds == ExpiryHours * 3600

\* ------------------------------------------------------------------------
\* State
\* ------------------------------------------------------------------------
VARIABLES
    variant,               \* which program runs: "base" or "modified"
    env,                   \* os.environ: which of the two required settings are set
    pc,                    \* position of the loop
    metar_data,            \* the dictionary returned by get_metar_data, by station
    idx,                   \* position of the for loop in its work list
    successful_publishes,  \* the cycle's success tally (count in the modified variant)
    result,                \* what the loop recorded for each station in this cycle
    sink_answer,           \* what the sink answered for each station in this cycle
    attempts,              \* how many times each station was handed to the sink in this cycle
    in_flight,             \* the stations whose publish call was started and has not returned
    channel,               \* the channel opened for each station in this cycle
    request,               \* the last entity handed to the sink in this cycle
    watched,               \* the station whose entities in the sink are observed
    sink,                  \* the unexpired entities the sink holds for that station
    fetch_failed,          \* the fetch of this cycle failed as a whole
    exception_raised,      \* an unexpected exception escaped in this cycle
    waited,                \* seconds slept before this cycle (0 before the first)
    exceptions_left,       \* unexpected exceptions the environment may still raise
    cancelled,             \* external cancellation (KeyboardInterrupt) was raised
    visibility_miles,      \* input: visibility of an observation (Optional)
    ceiling_feet,          \* input: ceiling of an observation (Optional)
    flight_condition,      \* input: a category value
    temperature_c,         \* input: temperature of an observation (Optional)
    wind_speed_kt,         \* input: wind speed of an observation (Optional)
    time_now,              \* input: the clock when an entity is built, in seconds
    cloud_layers,          \* input: the sky groups of a report, in report order
    call,                  \* the function applied last
    classified_visibility, \* the visibility handed to determine_flight_conditions
    ret,                   \* the value that function returned
    weather_entity,        \* the entity create_weather_entity returned (Optional)
    entity_times,          \* created_time and expiry_time of the entity built (Optional)
    classified_ceiling     \* the ceiling handed to determine_flight_conditions

loopVars == <<variant, env, pc, metar_data, idx, successful_publishes, result,
              sink_answer, attempts, in_flight,
                   channel, request, watched, sink, fetch_failed, exception_raised,
              waited, exceptions_left, cancelled>>

funcVars == <<visibility_miles, ceiling_feet, flight_condition, temperature_c,
              wind_speed_kt, time_now, cloud_layers, call, classified_visibility, ret,
              weather_entity, entity_times, classified_ceiling>>

vars == <<variant, env, pc, metar_data, idx, successful_publishes, result,
          sink_answer, attempts, in_flight,
                   channel, request, watched, sink, fetch_failed, exception_raised,
          waited, exceptions_left, cancelled,
          visibility_miles, ceiling_feet, flight_condition, temperature_c,
          wind_speed_kt, time_now, cloud_layers, call, classified_visibility, ret,
              weather_entity, entity_times, classified_ceiling>>

\* ------------------------------------------------------------------------
\* The functions on their own: inputs drawn in Init, one call per behaviour
\* ------------------------------------------------------------------------

VisibilityInputs == {None} \cup {Some(q) : q \in 0..MaxVisibility}

\* every hundred feet and its two neighbours, so that 499, 500 and 501 occur
CeilingInputs ==
    {None} \cup {Some(100 * h + d) : h \in 0..MaxCeilingHundreds, d \in {0, 1, 99}}

\* the four categories, and values that are none of them
CategoryInputs == {"VFR", "MVFR", "IFR", "LIFR", "UNKNOWN", "Unknown"}

\* one sky group: its coverage and its height in feet, absent when the
\* group gives none (BKN///)
LayerInputs ==
    [coverage : {"FEW", "SCT", "BKN", "OVC"},
     altitude_ft : {None, Some(0), Some(300), Some(2000)}]

\* the sky groups of a report, in the order of the report
SkyInputs ==
    UNION {[1..n -> LayerInputs] : n \in 0..MaxLayers}

TemperatureInputs == {Some(t) : t \in (0 - MaxTemperature)..MaxTemperature}

WindInputs == {Some(w) : w \in 0..MaxWindSpeed}

\* observations whose parameters are present or absent independently of
\* each other, with values in different bands (zero included)
ObservationInputs ==
    [vis : {None, Some(0), Some(Miles(3)), Some(Miles(10))},
     ceiling : {None, Some(300), Some(2000)},
     temp : {None, Some(-25), Some(0), Some(38)},
     wind : {None, Some(0), Some(20), Some(MaxWindSpeed)}]

\* the loop, not started
LoopIdle ==
    /\ variant = "base"
    /\ env = [LATTICE_URL |-> TRUE, ENVIRONMENT_TOKEN |-> TRUE]
    /\ pc = "unused"
    /\ metar_data = <<>>
    /\ idx = 0
    /\ successful_publishes = 0
    /\ result = <<>>
    /\ sink_answer = <<>>
    /\ attempts = <<>>
    /\ in_flight = {}
    /\ channel = <<>>
    /\ request = None
    /\ watched = "KBOS"
    /\ sink = <<>>
    /\ fetch_failed = FALSE
    /\ exception_raised = FALSE
    /\ waited = 0
    /\ exceptions_left = 0
    /\ cancelled = FALSE

\* no function called
FuncIdle ==
    /\ visibility_miles = None
    /\ ceiling_feet = None
    /\ flight_condition = ""
    /\ temperature_c = None
    /\ wind_speed_kt = None
    /\ call = "none"
    /\ classified_visibility = None
    /\ ret = ""
    /\ weather_entity = None
    /\ time_now = 0
    /\ cloud_layers = <<>>
    /\ entity_times = None
    /\ classified_ceiling = None

InitFunc ==
    /\ LoopIdle
    /\ call = "none"
    /\ classified_visibility = None
    /\ ret = ""
    /\ weather_entity = None
    /\ entity_times = None
    /\ classified_ceiling = None
    /\ \/ /\ visibility_miles \in VisibilityInputs
          /\ ceiling_feet \in CeilingInputs
          /\ flight_condition = ""
          /\ temperature_c = None
          /\ wind_speed_kt = None
          /\ time_now = 0
          /\ cloud_layers = <<>>
       \/ /\ visibility_miles = None
          /\ ceiling_feet = None
          /\ flight_condition \in CategoryInputs
          /\ temperature_c = None
          /\ wind_speed_kt = None
          /\ time_now = 0
          /\ cloud_layers = <<>>
       \/ /\ visibility_miles = None
          /\ ceiling_feet = None
          /\ flight_condition = ""
          /\ temperature_c \in TemperatureInputs
          /\ wind_speed_kt = None
          /\ time_now = 0
          /\ cloud_layers = <<>>
       \/ /\ visibility_miles = None
          /\ ceiling_feet = None
          /\ flight_condition = ""
          /\ temperature_c = None
          /\ wind_speed_kt \in WindInputs
          /\ time_now = 0
          /\ cloud_layers = <<>>
       \/ \E o \in ObservationInputs :
             /\ visibility_miles = o.vis
             /\ ceiling_feet = o.ceiling
             /\ flight_condition = ""
             /\ temperature_c = o.temp
             /\ wind_speed_kt = o.wind
             /\ time_now = 0
             /\ cloud_layers = <<>>
       \/ /\ visibility_miles = None
          /\ ceiling_feet = None
          /\ flight_condition = ""
          /\ temperature_c = None
          /\ wind_speed_kt = None
          /\ time_now \in 0..MaxClock
          /\ cloud_layers = <<>>
       \/ /\ visibility_miles = None
          /\ ceiling_feet = None
          /\ flight_condition = ""
          /\ temperature_c = None
          /\ wind_speed_kt = None
          /\ time_now = 0
          /\ cloud_layers \in SkyInputs

\* FlightConditions.determine_flight_conditions(visibility_miles, ceiling_feet),
\* called with a visibility that is a number
CallDetermine ==
    /\ call = "none"
    /\ ~IsNone(visibility_miles)
    /\ call' = "determine_flight_conditions"
    /\ classified_visibility' = visibility_miles
    /\ ret' = determine_flight_conditions(Val(visibility_miles), ceiling_feet)
    /\ UNCHANGED <<visibility_miles, ceiling_feet, flight_condition, temperature_c,
                   wind_speed_kt, time_now, cloud_layers, weather_entity,
                   entity_times, classified_ceiling>>
    /\ UNCHANGED loopVars

\* the classification step of _process_metar_data / get_metar_data:
\* determine_flight_conditions(visibility_miles or 10.0, ceiling_feet)
CallProcessMetar ==
    /\ call = "none"
    /\ call' = "process_metar_data"
    /\ classified_visibility' = Some(VisibilityOrDefault(visibility_miles))
    /\ ret' = ObservedCondition(visibility_miles, ceiling_feet)
    /\ UNCHANGED <<visibility_miles, ceiling_feet, flight_condition, temperature_c,
                   wind_speed_kt, time_now, cloud_layers, weather_entity,
                   entity_times, classified_ceiling>>
    /\ UNCHANGED loopVars

\* FlightConditions.get_disposition_for_condition(flight_condition)
CallDisposition ==
    /\ call = "none"
    /\ call' = "get_disposition_for_condition"
    /\ ret' = get_disposition_for_condition(flight_condition)
    /\ UNCHANGED <<visibility_miles, ceiling_feet, flight_condition, temperature_c,
                   wind_speed_kt, time_now, cloud_layers, classified_visibility,
                   weather_entity, entity_times, classified_ceiling>>
    /\ UNCHANGED loopVars

\* ------------------------------------------------------------------------
\* Claims about the functions (checked under SpecFunc)
\* ------------------------------------------------------------------------

Categories == {"VFR", "MVFR", "IFR", "LIFR"}

Dispositions == {"ASSUMED_FRIENDLY", "SUSPICIOUS", "HOSTILE"}

\* the ceiling the claims speak of: an absent ceiling read as 10000 ft
ClaimedCeiling == IF ceiling_feet = None THEN 10000 ELSE ceiling_feet[1]

C2_DispositionTotal ==
    call = "get_disposition_for_condition" =>
        /\ ret \in Dispositions
        /\ flight_condition = "VFR" => ret = "ASSUMED_FRIENDLY"
        /\ flight_condition = "MVFR" => ret = "SUSPICIOUS"
        /\ flight_condition \in {"IFR", "LIFR"} => ret = "HOSTILE"
        /\ flight_condition \notin Categories => ret = "HOSTILE"

\* C2 witness: a value that is no category was mapped, to HOSTILE
C2_Witness ==
    /\ call = "get_disposition_for_condition"
    /\ flight_condition = "UNKNOWN"
    /\ ret = "HOSTILE"

\* C9: the 10.0 statute-mile substitute is the classification input exactly
\* when the observation's visibility is absent; a visibility that is
\* present, zero included, is classified by its own value, so a reported
\* visibility of 0 yields LIFR.
C9_SubstituteOnlyWhenAbsent ==
    call = "process_metar_data" =>
        /\ visibility_miles = None => classified_visibility = <<40>>
        /\ visibility_miles # None => classified_visibility = visibility_miles
        /\ visibility_miles = <<0>> => ret = "LIFR"

CategorySeverity(category) ==
    IF category = "VFR" THEN 0
    ELSE IF category = "MVFR" THEN 1
    ELSE IF category = "IFR" THEN 2
    ELSE 3

\* C30: determine_flight_conditions is monotone in both inputs: with the
\* severity order VFR < MVFR < IFR < LIFR, a lower visibility at the same
\* ceiling and a lower ceiling at the same visibility never give a less
\* severe category, and an absent ceiling is never more severe than a
\* present one at the same visibility.
C30_Monotone ==
    call = "determine_flight_conditions" =>
        LET v == visibility_miles[1]
            severity == CategorySeverity(ret)
        IN  /\ \A lower \in 0..v :
                  CategorySeverity(determine_flight_conditions(lower, ceiling_feet))
                      >= severity
            /\ ceiling_feet # None =>
                  \A lower \in {c \in CeilingInputs \ {None} : c[1] <= ceiling_feet[1]} :
                      CategorySeverity(determine_flight_conditions(v, lower)) >= severity
            /\ ceiling_feet # None =>
                  CategorySeverity(determine_flight_conditions(v, None)) <= severity

\* C30 witness: visibility 5.0 with ceiling 1000 was classified, as MVFR;
\* a lower visibility or a lower ceiling crosses into IFR
C30_Witness ==
    /\ call = "determine_flight_conditions"
    /\ visibility_miles = <<20>>
    /\ ceiling_feet = <<1000>>
    /\ ret = "MVFR"

\* ------------------------------------------------------------------------
\* The observation source
\* ------------------------------------------------------------------------

\* (visibility, ceiling, temperature, wind speed) of the reports the
\* provider may return: a VFR, an MVFR and a LIFR one (examples of
\* test_flight_conditions and test_health_components)
ObsSamples ==
    { <<Some(Miles(10)), Some(5000), Some(20), Some(10)>>,
      <<Some(Miles(4)), Some(2000), Some(-15), Some(20)>>,
      <<Some(2), Some(300), Some(45), None>> }

\* what the provider's JSON holds for one station: nothing, a raw text the
\* METAR parser rejects, or a report
RawEntries ==
    { [kind |-> "absent", vis |-> None, ceiling |-> None, temp |-> None, wind |-> None],
      [kind |-> "garbled", vis |-> None, ceiling |-> None, temp |-> None, wind |-> None] }
    \cup { [kind |-> "report", vis |-> o[1], ceiling |-> o[2], temp |-> o[3],
            wind |-> o[4]] : o \in ObsSamples }

NoRawEntries ==
    [s \in Stations |->
        [kind |-> "absent", vis |-> None, ceiling |-> None, temp |-> None, wind |-> None]]

\* the outcome of session.get(...): a failure of the whole request, or a body
FetchResponses ==
    { [ok |-> FALSE, body |-> NoRawEntries] }
    \cup { [ok |-> TRUE, body |-> b] : b \in [Stations -> RawEntries] }

\* a key that is not in the dictionary
Missing == [kind |-> "missing", flight_condition |-> "", visibility_miles |-> None,
            ceiling_feet |-> None, temperature_c |-> None, wind_speed_kt |-> None]

\* `return {}`
EmptyDict == [s \in Stations |-> Missing]

\* MetarApiClient._process_metar_data(metar_data), base variant: a report
\* the parser rejects still yields an entry, with flight_condition UNKNOWN
\* and a parse_error key (no error key)
process_metar_data(raw) ==
    IF raw.kind = "report"
    THEN [kind |-> "ok",
          flight_condition |-> ObservedCondition(raw.vis, raw.ceiling),
          visibility_miles |-> raw.vis,
          ceiling_feet |-> raw.ceiling,
          temperature_c |-> raw.temp,
          wind_speed_kt |-> raw.wind]
    ELSE [kind |-> "parse_error", flight_condition |-> "UNKNOWN",
          visibility_miles |-> None, ceiling_feet |-> None,
          temperature_c |-> None, wind_speed_kt |-> None]

\* the body of the for loop of get_metar_data, modified variant: a report
\* the parser rejects yields {'error': ..., 'raw_text': ...}
weather_data(raw) ==
    IF raw.kind = "report"
    THEN [kind |-> "ok",
          flight_condition |-> ObservedCondition(raw.vis, raw.ceiling),
          visibility_miles |-> raw.vis,
          ceiling_feet |-> raw.ceiling,
          temperature_c |-> raw.temp,
          wind_speed_kt |-> raw.wind]
    ELSE [kind |-> "error", flight_condition |-> "",
          visibility_miles |-> None, ceiling_feet |-> None,
          temperature_c |-> None, wind_speed_kt |-> None]

\* a fetch that fails yet returns entries: the slip get_metar_data avoids
get_metar_data_stale(v, resp) ==
    IF ~resp.ok
    THEN [s \in Stations |->
            [kind |-> "ok", flight_condition |-> "VFR",
             visibility_miles |-> Some(Miles(10)), ceiling_feet |-> None,
             temperature_c |-> None, wind_speed_kt |-> None]]
    ELSE [s \in Stations |->
            IF resp.body[s].kind = "absent" THEN Missing
            ELSE IF v = "base" THEN process_metar_data(resp.body[s])
            ELSE weather_data(resp.body[s])]

\* MetarApiClient.get_metar_data(icao_codes): {} when the request or the
\* decoding fails, else one entry per station of the response
get_metar_data(v, resp) ==
    IF ~resp.ok
    THEN EmptyDict
    ELSE [s \in Stations |->
            IF resp.body[s].kind = "absent" THEN Missing
            ELSE IF v = "base" THEN process_metar_data(resp.body[s])
            ELSE weather_data(resp.body[s])]

\* Python truthiness of the dictionary: `if metar_data:`
NonEmpty(data) == \E s \in Stations : data[s].kind # "missing"

\* ------------------------------------------------------------------------
\* The entity and the sink
\* ------------------------------------------------------------------------

\* f"weather-{icao.lower()}-{uuid4()}": the suffix "uuid4" stands for a
\* value drawn afresh at every call, equal to no other identifier
UniqueEntityId(icao) == [prefix |-> "weather", icao |-> icao, suffix |-> "uuid4"]

\* f"weather_{icao}": no suffix
StableEntityId(icao) == [prefix |-> "weather", icao |-> icao, suffix |-> ""]

\* publish_weather_entity, base variant, lines 376-443: the entity built
\* for a station; the disposition is the constant ASSUMED_FRIENDLY
base_entity(icao, metar_info) ==
    [entity_id |-> UniqueEntityId(icao),
     flight_condition |->
         IF metar_info.kind = "missing" THEN "UNKNOWN" ELSE metar_info.flight_condition,
     disposition |-> "ASSUMED_FRIENDLY"]

\* create_weather_entity, modified variant: the disposition, the health
\* components and the overall health of the entity built for a station
create_weather_entity(icao, weather) ==
    LET fc == IF weather.kind = "missing" \/ weather.kind = "error"
              THEN "Unknown" ELSE weather.flight_condition
        components == health_components(icao, fc, weather.temperature_c,
                                        weather.wind_speed_kt,
                                        weather.visibility_miles)
    IN  [entity_id |-> StableEntityId(icao),
         flight_condition |-> fc,
         disposition |-> get_disposition_for_condition(fc),
         health_status |-> overall_health_status(fc, components),
         components |-> components]

\* a slip of the unit: timedelta(minutes=2)
TimestampsMinutes(now) ==
    [created_time |-> now, expiry_time |-> now + ExpiryHours * 60]

\* created_time=current_time, expiry_time=current_time + timedelta(hours=2)
\* (base variant); time_now and time_now + timedelta(hours=2) (modified)
Timestamps(now) ==
    [created_time |-> now, expiry_time |-> now + TtlSeconds]

\* the layers that count as a ceiling: Broken or Overcast
CeilingCoverages == {"BKN", "OVC"}

\* the height of the layer at the least of the positions `hits`, None when
\* there is none: `for layer in ...: if ...: return/break`
FirstHeight(layers, hits) ==
    LET first == CHOOSE i \in hits : \A j \in hits : i <= j
    IN  IF hits = {} THEN None ELSE layers[first].altitude_ft

\* _process_metar_data, base variant, lines 262-268: `if layer[1]:` tests
\* the height object of the parser, which is there whenever the group gives
\* a height, 000 included
process_ceiling_feet(sky) ==
    FirstHeight(sky, {i \in 1..Len(sky) :
        sky[i].coverage \in CeilingCoverages /\ ~IsNone(sky[i].altitude_ft)})

\* MetarApiClient._get_ceiling_feet(cloud_layers), modified variant:
\* `and layer['altitude_ft']` tests the number, so a height of 0 is falsy
get_ceiling_feet(layers) ==
    FirstHeight(layers, {i \in 1..Len(layers) :
        /\ layers[i].coverage \in CeilingCoverages
        /\ ~IsNone(layers[i].altitude_ft)
        /\ Val(layers[i].altitude_ft) # 0})

\* the entity a variant builds for a station
Entity(v, icao, data) ==
    IF v = "base" THEN base_entity(icao, data)
    ELSE create_weather_entity(icao, data)

\* the entities the sink holds for one station, oldest first, after it
\* accepted an entity: an entity with the same identifier is superseded
\* (a uuid4 identifier equals none), the new one expires TtlSeconds from now
Accept(held, entity) ==
    LET kept == IF entity.entity_id.suffix = "uuid4" THEN held
                ELSE SelectSeq(held, LAMBDA e : e.entity_id # entity.entity_id)
    IN  Append(kept, [entity_id |-> entity.entity_id, expires_in |-> TtlSeconds])

\* the entities the sink holds for one station after `seconds` have passed:
\* those whose expiry time has come are gone
Elapse(held, seconds) ==
    LET alive == SelectSeq(held, LAMBDA e : e.expires_in > seconds)
    IN  [i \in 1..Len(alive) |-> [alive[i] EXCEPT !.expires_in = @ - seconds]]

\* ------------------------------------------------------------------------
\* The health evaluators and the entity on their own
\* ------------------------------------------------------------------------

\* LatticeWeatherIntegration._get_health_status_for_condition(flight_condition)
CallHealthCondition ==
    /\ call = "none"
    /\ call' = "get_health_status_for_condition"
    /\ ret' = get_health_status_for_condition(flight_condition)
    /\ UNCHANGED <<visibility_miles, ceiling_feet, flight_condition, temperature_c,
                   wind_speed_kt, time_now, cloud_layers, classified_visibility,
                   weather_entity, entity_times, classified_ceiling>>
    /\ UNCHANGED loopVars

\* LatticeWeatherIntegration._get_health_status_for_temperature(temperature_c),
\* called for a temperature that is not None
CallHealthTemperature ==
    /\ call = "none"
    /\ ~IsNone(temperature_c)
    /\ call' = "get_health_status_for_temperature"
    /\ ret' = get_health_status_for_temperature(Val(temperature_c))
    /\ UNCHANGED <<visibility_miles, ceiling_feet, flight_condition, temperature_c,
                   wind_speed_kt, time_now, cloud_layers, classified_visibility,
                   weather_entity, entity_times, classified_ceiling>>
    /\ UNCHANGED loopVars

\* LatticeWeatherIntegration._get_health_status_for_wind(wind_speed), called
\* for a wind speed that is not None
CallHealthWind ==
    /\ call = "none"
    /\ ~IsNone(wind_speed_kt)
    /\ call' = "get_health_status_for_wind"
    /\ ret' = get_health_status_for_wind(Val(wind_speed_kt))
    /\ UNCHANGED <<visibility_miles, ceiling_feet, flight_condition, temperature_c,
                   wind_speed_kt, time_now, cloud_layers, classified_visibility,
                   weather_entity, entity_times, classified_ceiling>>
    /\ UNCHANGED loopVars

\* LatticeWeatherIntegration._get_health_status_for_visibility(visibility),
\* called for a visibility that is not None
CallHealthVisibility ==
    /\ call = "none"
    /\ ~IsNone(visibility_miles)
    /\ call' = "get_health_status_for_visibility"
    /\ ret' = get_health_status_for_visibility(Val(visibility_miles))
    /\ UNCHANGED <<visibility_miles, ceiling_feet, flight_condition, temperature_c,
                   wind_speed_kt, time_now, cloud_layers, classified_visibility,
                   weather_entity, entity_times, classified_ceiling>>
    /\ UNCHANGED loopVars

\* the report of the first station with the values of the inputs, parsed by
\* get_metar_data and handed to create_weather_entity
CallCreateWeatherEntity ==
    /\ call = "none"
    /\ call' = "create_weather_entity"
    /\ LET raw == [kind |-> "report", vis |-> visibility_miles,
                   ceiling |-> ceiling_feet, temp |-> temperature_c,
                   wind |-> wind_speed_kt]
       IN  weather_entity' =
               Some(create_weather_entity(ICAO_CODES[1], weather_data(raw)))
    /\ entity_times' = Some(Timestamps(time_now))
    /\ UNCHANGED <<visibility_miles, ceiling_feet, flight_condition, temperature_c,
                   wind_speed_kt, time_now, cloud_layers, classified_visibility,
                   ret, classified_ceiling>>
    /\ UNCHANGED loopVars

\* the entity publish_weather_entity (base variant) builds from the report
\* of the first station with the values of the inputs
CallPublishWeatherEntity ==
    /\ call = "none"
    /\ call' = "publish_weather_entity"
    /\ LET raw == [kind |-> "report", vis |-> visibility_miles,
                   ceiling |-> ceiling_feet, temp |-> temperature_c,
                   wind |-> wind_speed_kt]
       IN  weather_entity' =
               Some(base_entity(ICAO_CODES[1], process_metar_data(raw)))
    /\ entity_times' = Some(Timestamps(time_now))
    /\ UNCHANGED <<visibility_miles, ceiling_feet, flight_condition, temperature_c,
                   wind_speed_kt, time_now, cloud_layers, classified_visibility,
                   ret, classified_ceiling>>
    /\ UNCHANGED loopVars

\* the ceiling _process_metar_data (base variant) takes from the sky groups
CallProcessCeiling ==
    /\ call = "none"
    /\ call' = "process_ceiling_feet"
    /\ classified_ceiling' = process_ceiling_feet(cloud_layers)
    /\ UNCHANGED <<visibility_miles, ceiling_feet, flight_condition, temperature_c,
                   wind_speed_kt, time_now, cloud_layers, classified_visibility,
                   ret, weather_entity, entity_times>>
    /\ UNCHANGED loopVars

\* MetarApiClient._get_ceiling_feet(weather_data['cloud_layers']) (modified
\* variant)
CallGetCeilingFeet ==
    /\ call = "none"
    /\ call' = "get_ceiling_feet"
    /\ classified_ceiling' = get_ceiling_feet(cloud_layers)
    /\ UNCHANGED <<visibility_miles, ceiling_feet, flight_condition, temperature_c,
                   wind_speed_kt, time_now, cloud_layers, classified_visibility,
                   ret, weather_entity, entity_times>>
    /\ UNCHANGED loopVars

NextFunc ==
    \/ CallDetermine
    \/ CallProcessMetar
    \/ CallDisposition
    \/ CallHealthCondition
    \/ CallHealthTemperature
    \/ CallHealthWind
    \/ CallHealthVisibility
    \/ CallCreateWeatherEntity
    \/ CallPublishWeatherEntity
    \/ CallProcessCeiling
    \/ CallGetCeilingFeet

SpecFunc == InitFunc /\ [][NextFunc]_vars

\* ------------------------------------------------------------------------
\* Claims about the health evaluators and the entity (checked under SpecFunc)
\* ------------------------------------------------------------------------

\* the two names the variants give the error level (HealthStatus.ERROR,
\* HealthStatus.FAIL)
ErrorBand == {"ERROR", "FAIL"}

HealthBands == {"HEALTHY", "WARN", "OFFLINE"} \cup ErrorBand

\* C11 as stated: the temperature health evaluator returns the error band
\* for a temperature of exactly -20 and of exactly 40, and WARN for a
\* temperature of exactly -10 and of exactly 35.
C11_BoundaryInWorseBand ==
    call = "get_health_status_for_temperature" =>
        LET t == temperature_c[1] IN
        /\ t \in {-20, 40} => ret \in ErrorBand
        /\ t \in {-10, 35} => ret = "WARN"

\* C11 amended: the temperature health evaluator returns WARN for a
\* temperature of exactly -20 and of exactly 40, and HEALTHY for a
\* temperature of exactly -10 and of exactly 35: the comparisons are strict
\* and a boundary value falls into the less severe band.
C11_BoundaryInLessSevereBand ==
    call = "get_health_status_for_temperature" =>
        LET t == temperature_c[1] IN
        /\ t \in {-20, 40} => ret = "WARN"
        /\ t \in {-10, 35} => ret = "HEALTHY"

\* C11 witness: a temperature of exactly -20 was banded, as WARN
C11_Witness ==
    /\ call = "get_health_status_for_temperature"
    /\ temperature_c = <<-20>>
    /\ ret = "WARN"

\* C12: for every temperature t the temperature health evaluator returns the
\* error band when t < -20 or t > 40, otherwise WARN when t < -10 or t > 35,
\* otherwise HEALTHY; it always returns one of these and never OFFLINE.
C12_TemperatureBands ==
    call = "get_health_status_for_temperature" =>
        LET t == temperature_c[1]
            error == t < -20 \/ t > 40
            warn == t < -10 \/ t > 35
        IN  /\ ret \in {"HEALTHY", "WARN"} \cup ErrorBand
            /\ ret # "OFFLINE"
            /\ (ret \in ErrorBand) <=> error
            /\ (ret = "WARN") <=> (~error /\ warn)
            /\ (ret = "HEALTHY") <=> (~error /\ ~warn)

\* C12 witness: a temperature above 40 was banded, in the error band
C12_Witness ==
    /\ call = "get_health_status_for_temperature"
    /\ temperature_c = <<41>>
    /\ ret \in ErrorBand

\* C13: for every wind speed w the wind health evaluator returns the error
\* band when w > 30, otherwise WARN when w > 15, otherwise HEALTHY; exactly
\* 30 is WARN and exactly 15 is HEALTHY.
C13_WindBands ==
    call = "get_health_status_for_wind" =>
        LET w == wind_speed_kt[1] IN
        /\ (ret \in ErrorBand) <=> (w > 30)
        /\ (ret = "WARN") <=> (w <= 30 /\ w > 15)
        /\ (ret = "HEALTHY") <=> (w <= 15)
        /\ w = 30 => ret = "WARN"
        /\ w = 15 => ret = "HEALTHY"

\* C13 witness: a wind speed of exactly 30 was banded, as WARN
C13_Witness ==
    /\ call = "get_health_status_for_wind"
    /\ wind_speed_kt = <<30>>
    /\ ret = "WARN"

\* C14: for every visibility v the visibility health evaluator returns the
\* error band when v < 1 mile, otherwise WARN when v < 5 miles, otherwise
\* HEALTHY; exactly 1 is WARN and exactly 5 is HEALTHY.
C14_VisibilityBands ==
    call = "get_health_status_for_visibility" =>
        LET v == visibility_miles[1] IN
        /\ (ret \in ErrorBand) <=> (v < 4)
        /\ (ret = "WARN") <=> (v >= 4 /\ v < 20)
        /\ (ret = "HEALTHY") <=> (v >= 20)
        /\ v = 4 => ret = "WARN"
        /\ v = 20 => ret = "HEALTHY"

\* C14 witness: a visibility of exactly 1 mile was banded, as WARN
C14_Witness ==
    /\ call = "get_health_status_for_visibility"
    /\ visibility_miles = <<4>>
    /\ ret = "WARN"

\* C15: the category health evaluator returns HEALTHY for VFR, WARN for
\* MVFR, the error band for IFR and for LIFR, and OFFLINE only for a value
\* that is none of these four; the category component of an entity built
\* from a classified observation is never OFFLINE.
C15_CategoryHealth ==
    /\ call = "get_health_status_for_condition" =>
          /\ flight_condition = "VFR" => ret = "HEALTHY"
          /\ flight_condition = "MVFR" => ret = "WARN"
          /\ flight_condition \in {"IFR", "LIFR"} => ret \in ErrorBand
          /\ (ret = "OFFLINE") <=> (flight_condition \notin Categories)
    /\ call = "create_weather_entity" =>
          LET e == weather_entity[1] IN
          /\ e.flight_condition \in Categories
          /\ e.components[1].name = "Flight Condition"
          /\ e.components[1].health # "OFFLINE"
          /\ e.health_status # "OFFLINE"

\* C15 witness: an entity was built from an observation classified LIFR and
\* its category component is in the error band
C15_Witness ==
    /\ call = "create_weather_entity"
    /\ weather_entity[1].flight_condition = "LIFR"
    /\ weather_entity[1].components[1].health \in ErrorBand

\* C16: the overall health of every entity built by create_weather_entity
\* is the category health of the entity's flight category (HEALTHY for VFR,
\* WARN for MVFR, the error band for IFR and LIFR), whatever the bands of
\* its temperature, wind-speed and visibility components are.
C16_OverallHealthIsCategoryHealth ==
    call = "create_weather_entity" =>
        LET e == weather_entity[1] IN
        /\ e.flight_condition = "VFR" => e.health_status = "HEALTHY"
        /\ e.flight_condition = "MVFR" => e.health_status = "WARN"
        /\ e.flight_condition \in {"IFR", "LIFR"} => e.health_status \in ErrorBand
        /\ e.flight_condition \notin Categories => e.health_status = "OFFLINE"

\* C16 witness: an entity whose category is VFR and whose overall health is
\* HEALTHY holds a component in the error band
C16_Witness ==
    /\ call = "create_weather_entity"
    /\ weather_entity[1].flight_condition = "VFR"
    /\ weather_entity[1].health_status = "HEALTHY"
    /\ \E i \in 1..Len(weather_entity[1].components) :
          weather_entity[1].components[i].health \in ErrorBand

\* C17: the health component list of an entity is the flight-category
\* component followed by a temperature, a wind-speed and a visibility
\* component, each of the three present exactly when the observation holds
\* that value and in that order; the list has one to four entries and none
\* for an absent value.
C17_ComponentsFollowPresence ==
    call = "create_weather_entity" =>
        LET components == weather_entity[1].components
            names == [i \in 1..Len(components) |-> components[i].name]
            expected ==
                <<"Flight Condition">>
                \o (IF temperature_c = None THEN <<>> ELSE <<"Temperature">>)
                \o (IF wind_speed_kt = None THEN <<>> ELSE <<"Wind Speed">>)
                \o (IF visibility_miles = None THEN <<>> ELSE <<"Visibility">>)
        IN  /\ names = expected
            /\ Len(components) \in 1..4
            /\ \A i \in 1..Len(components) : components[i].health \in HealthBands

\* C17 witness: an entity was built from an observation with a temperature
\* of 0, no wind speed and a visibility of 0: three components
C17_Witness ==
    /\ call = "create_weather_entity"
    /\ temperature_c = <<0>>
    /\ wind_speed_kt = None
    /\ visibility_miles = <<0>>
    /\ Len(weather_entity[1].components) = 3
    /\ weather_entity[1].components[2].name = "Temperature"
    /\ weather_entity[1].components[3].name = "Visibility"

\* C26: for every entity whose observation has a visibility value the
\* overall health is at least as severe as the visibility component's
\* health (HEALTHY < WARN < error band): a visibility component in the error
\* band implies an overall health in the error band and the disposition
\* HOSTILE, and a visibility component of WARN implies an overall health
\* that is not HEALTHY.
C26_OverallCoversVisibility ==
    (call = "create_weather_entity" /\ visibility_miles # None) =>
        LET e == weather_entity[1] IN
        \A i \in 1..Len(e.components) :
            e.components[i].name = "Visibility" =>
                /\ Severity(e.health_status) >= Severity(e.components[i].health)
                /\ e.components[i].health \in ErrorBand =>
                      (e.health_status \in ErrorBand /\ e.disposition = "HOSTILE")
                /\ e.components[i].health = "WARN" => e.health_status # "HEALTHY"

\* the parameter a component reports, as it appears in a sub-identifier
ParameterOf(name) ==
    IF name = "Flight Condition" THEN "flight_condition"
    ELSE IF name = "Temperature" THEN "temperature"
    ELSE IF name = "Wind Speed" THEN "wind_speed"
    ELSE "visibility"

\* C28: within one entity the health components carry pairwise distinct
\* sub-identifiers, each formed from the station identifier and the name of
\* the parameter the component reports.
C28_ComponentIdsDistinct ==
    call = "create_weather_entity" =>
        LET components == weather_entity[1].components IN
        /\ \A i, j \in 1..Len(components) :
              i # j => components[i].id # components[j].id
        /\ \A i \in 1..Len(components) :
              components[i].id = <<ICAO_CODES[1], ParameterOf(components[i].name)>>

\* C24: every synthesized entity has an expiry timestamp equal to its
\* creation timestamp plus the fixed TTL of 2 hours, so its expiry is
\* strictly later than its creation.
C24_ExpiryIsCreationPlusTtl ==
    call \in {"create_weather_entity", "publish_weather_entity"} =>
        LET times == entity_times[1] IN
        /\ times.created_time = time_now
        /\ times.expiry_time = times.created_time + 2 * 60 * 60
        /\ times.expiry_time > times.created_time

\* C24 witness: an entity was built when the clock read 3 seconds; it
\* expires at 7203
C24_Witness ==
    /\ call = "create_weather_entity"
    /\ time_now = 3
    /\ entity_times = <<[created_time |-> 3, expiry_time |-> 7203]>>

\* C27: the ceiling passed to the classifier is the height of the lowest
\* cloud layer whose coverage is BKN or OVC; layers of any other coverage
\* never set it, and it is absent only when the report has no BKN or OVC
\* layer.
C27_CeilingIsLowestBrokenOrOvercast ==
    call \in {"process_ceiling_feet", "get_ceiling_feet"} =>
        LET ceilings == {i \in 1..Len(cloud_layers) :
                            cloud_layers[i].coverage \in {"BKN", "OVC"}}
            heights == {cloud_layers[i].altitude_ft[1] :
                            i \in {k \in ceilings : cloud_layers[k].altitude_ft # None}}
        IN  /\ (classified_ceiling = None) <=> (ceilings = {})
            /\ classified_ceiling # None =>
                  /\ classified_ceiling[1] \in heights
                  /\ \A h \in heights : classified_ceiling[1] <= h

\* ------------------------------------------------------------------------
\* The reconciliation loop
\* ------------------------------------------------------------------------

\* the stations the for loop visits: every airport in the base variant
\* (for icao in icao_codes), the keys of the dictionary in the modified one
\* (for icao, data in metar_data.items())
Worklist(v, data) ==
    IF v = "base" THEN ICAO_CODES
    ELSE SelectSeq(ICAO_CODES, LAMBDA s : data[s].kind # "missing")

\* whether an entry is published: `metar_info and not metar_info.get('error')`
\* in the base variant, `'error' in data` skipped in the modified one
Publishable(v, entry) ==
    IF v = "base" THEN entry.kind \notin {"missing", "error"}
    ELSE entry.kind # "error"

\* a loop that gives up on the first failed publish
AfterStationAbort(i, success) == IF success THEN i + 1 ELSE Len(ICAO_CODES) + 1

\* a loop that tries a station again until the sink accepts it
AfterStationRetry(i, success) == IF success THEN i + 1 ELSE i

\* the for loop goes on to the next station whatever the outcome was
AfterStation(i, success) == i + 1

\* a loop that ends on an unexpected exception
AfterExceptionBreak(v) == "stopped"

\* where an exception caught by `except Exception` leaves the loop: at the
\* five-minute sleep in the base variant, at the normal sleep in the
\* modified one
AfterException(v) == IF v = "base" THEN "recover" ELSE "sleep"

\* a get_metar_data that lets the failure of the request escape to the
\* loop's handler instead of returning {}
AfterFetchRaise(v, data, failed) ==
    IF failed THEN (IF v = "base" THEN "recover" ELSE "sleep")
    ELSE IF v = "modified" /\ ~NonEmpty(data) THEN "sleep"
    ELSE "process"

\* where the loop goes after get_metar_data returned: the failure of the
\* request is caught inside get_metar_data, so the loop goes on; the
\* modified variant enters publish_weather_entities only `if metar_data:`
AfterFetch(v, data, failed) ==
    IF v = "modified" /\ ~NonEmpty(data) THEN "sleep" ELSE "process"

NoResults == [s \in Stations |-> "none"]

NoAttempts == [s \in Stations |-> 0]

NoChannels == [s \in Stations |-> "none"]

\* a call started with asyncio.create_task and not awaited: the for loop
\* goes on to the next station while the call is pending
AfterCallDetached(i) == i + 1

\* `await`: the for loop stays at the station until its publish call returns
AfterCall(i) == i

\* a validation that forgets the credential
ConfigValidUrlOnly(e) == e.LATTICE_URL

\* the negation of `not self.lattice_url or not self.environment_token`
ConfigValid(e) == e.LATTICE_URL /\ e.ENVIRONMENT_TOKEN

\* LatticeWeatherIntegration.__init__: ValueError when LATTICE_URL or
\* ENVIRONMENT_TOKEN is not set, else the loop is entered
Construct ==
    /\ pc = "init"
    /\ pc' = IF ConfigValid(env) THEN "fetch" ELSE "config_error"
    /\ UNCHANGED <<variant, env, metar_data, idx, successful_publishes,
                   result, sink_answer, attempts, in_flight,
                   channel, request, watched, sink, fetch_failed,
                   exception_raised, waited, exceptions_left, cancelled>>
    /\ UNCHANGED funcVars

\* top of the while loop: get_metar_data, then the tally is reset and the
\* for loop entered; the modified variant goes straight to the sleep when
\* the dictionary is empty
Fetch ==
    /\ pc = "fetch"
    /\ \E resp \in FetchResponses :
          LET data == get_metar_data(variant, resp) IN
          /\ metar_data' = data
          /\ fetch_failed' = ~resp.ok
          /\ pc' = AfterFetch(variant, data, ~resp.ok)
    /\ idx' = 1
    /\ successful_publishes' = 0
    /\ result' = NoResults
    /\ sink_answer' = NoResults
    /\ attempts' = NoAttempts
    /\ channel' = NoChannels
    /\ request' = None
    /\ exception_raised' = FALSE
    /\ UNCHANGED <<variant, env, in_flight, watched, sink, waited, exceptions_left,
                   cancelled>>
    /\ UNCHANGED funcVars

\* one pass of the for loop over a station that is not published
SkipStation ==
    /\ pc = "process"
    /\ idx <= Len(Worklist(variant, metar_data))
    /\ LET s == Worklist(variant, metar_data)[idx] IN
          /\ ~Publishable(variant, metar_data[s])
          /\ result' = [result EXCEPT ![s] = "skipped"]
    /\ idx' = idx + 1
    /\ pc' = IF idx' > Len(Worklist(variant, metar_data)) THEN "sleep" ELSE "process"
    /\ UNCHANGED <<variant, env, metar_data, successful_publishes,
                   sink_answer, attempts, in_flight,
                   channel, request, watched, sink, fetch_failed,
                   exception_raised, waited, exceptions_left, cancelled>>
    /\ UNCHANGED funcVars

\* the first half of a pass of the for loop over a station that is
\* published: the entity is built, a channel is opened and the request is
\* sent; the coroutine is suspended at `await stub.publish_entity(...)`
PublishStart ==
    /\ pc = "process"
    /\ idx <= Len(Worklist(variant, metar_data))
    /\ LET s == Worklist(variant, metar_data)[idx]
           entity == Entity(variant, s, metar_data[s])
       IN  /\ Publishable(variant, metar_data[s])
           /\ s \notin in_flight
           /\ request' = Some(entity)
           /\ attempts' = [attempts EXCEPT ![s] = @ + 1]
           /\ channel' = [channel EXCEPT ![s] = "open"]
           /\ in_flight' = in_flight \cup {s}
    /\ idx' = AfterCall(idx)
    /\ pc' = IF idx' > Len(Worklist(variant, metar_data)) THEN "sleep" ELSE "process"
    /\ UNCHANGED <<variant, env, metar_data, successful_publishes, result,
                   sink_answer, watched, sink, fetch_failed, exception_raised,
                   waited, exceptions_left, cancelled>>
    /\ UNCHANGED funcVars

\* the second half: the sink accepts the entity ("ok") or fails the call
\* ("error"); channel.close() is the statement after the await and runs on
\* the success path only; both variants catch the failure per station and
\* go on
PublishStation ==
    /\ pc = "process"
    /\ \E s \in in_flight, answer \in {"ok", "error"} :
          LET entity == Entity(variant, s, metar_data[s]) IN
          /\ sink_answer' = [sink_answer EXCEPT ![s] = answer]
          /\ sink' = IF answer = "ok" /\ s = watched
                     THEN Accept(sink, entity)
                     ELSE sink
          /\ channel' = [channel EXCEPT ![s] = IF answer = "ok" THEN "closed" ELSE "open"]
          /\ in_flight' = in_flight \ {s}
          /\ result' = [result EXCEPT ![s] =
                           IF answer = "ok" THEN "success" ELSE "failure"]
          /\ successful_publishes' =
                 IF answer = "ok" THEN successful_publishes + 1
                 ELSE successful_publishes
          /\ idx' = AfterStation(idx, answer = "ok")
    /\ pc' = IF idx' > Len(Worklist(variant, metar_data)) THEN "sleep" ELSE "process"
    /\ UNCHANGED <<variant, env, metar_data, attempts, request, watched, fetch_failed,
                   exception_raised, waited, exceptions_left, cancelled>>
    /\ UNCHANGED funcVars

\* asyncio.sleep(update_interval_minutes * 60), then the top of the loop
Sleep ==
    /\ pc = "sleep"
    /\ waited' = IntervalSeconds
    /\ sink' = Elapse(sink, IntervalSeconds)
    /\ pc' = "fetch"
    /\ UNCHANGED <<variant, env, metar_data, idx, successful_publishes,
                   result, sink_answer, attempts, in_flight,
                   channel, request, watched, fetch_failed,
                   exception_raised, exceptions_left, cancelled>>
    /\ UNCHANGED funcVars

\* base variant: asyncio.sleep(300) in the except branch, then the top of
\* the loop
RecoveryWait ==
    /\ pc = "recover"
    /\ waited' = RecoverySeconds
    /\ sink' = Elapse(sink, RecoverySeconds)
    /\ pc' = "fetch"
    /\ UNCHANGED <<variant, env, metar_data, idx, successful_publishes,
                   result, sink_answer, attempts, in_flight,
                   channel, request, watched, fetch_failed,
                   exception_raised, exceptions_left, cancelled>>
    /\ UNCHANGED funcVars

\* an exception that no inner handler catches is raised while the cycle
\* fetches or processes; `except Exception` of the loop catches it (what a
\* pending publish call raises is caught per station: PublishStation)
UnexpectedException ==
    /\ pc \in {"fetch", "process"}
    /\ in_flight = {}
    /\ exceptions_left > 0
    /\ exceptions_left' = exceptions_left - 1
    /\ exception_raised' = TRUE
    /\ pc' = AfterException(variant)
    /\ UNCHANGED <<variant, env, metar_data, idx, successful_publishes,
                   result, sink_answer, attempts, in_flight,
                   channel, request, watched, sink, fetch_failed,
                   waited, cancelled>>
    /\ UNCHANGED funcVars

\* KeyboardInterrupt: `except KeyboardInterrupt: break` in the base variant,
\* propagation to main() in the modified one.  No handler of a publish call
\* catches it (`except Exception`), so a call that is pending is abandoned
\* where it is: its channel stays open, and whether the sink has accepted
\* the entity is not known
Cancel ==
    /\ pc \in {"fetch", "process", "sleep", "recover"}
    /\ cancelled' = TRUE
    /\ pc' = "stopped"
    /\ sink' \in IF watched \in in_flight
                 THEN {sink, Accept(sink, Val(request))}
                 ELSE {sink}
    /\ UNCHANGED <<variant, env, metar_data, idx, successful_publishes,
                   result, sink_answer, attempts, in_flight, channel, request,
                   watched, fetch_failed, exception_raised, waited,
                   exceptions_left>>
    /\ UNCHANGED funcVars

Init ==
    /\ FuncIdle
    /\ variant \in {"base", "modified"}
    /\ env \in [LATTICE_URL : BOOLEAN, ENVIRONMENT_TOKEN : BOOLEAN]
    /\ pc = "init"
    /\ metar_data = EmptyDict
    /\ idx = 1
    /\ successful_publishes = 0
    /\ result = NoResults
    /\ sink_answer = NoResults
    /\ attempts = NoAttempts
    /\ in_flight = {}
    /\ channel = NoChannels
    /\ request = None
    /\ watched \in Stations
    /\ sink = <<>>
    /\ fetch_failed = FALSE
    /\ exception_raised = FALSE
    /\ waited = 0
    /\ exceptions_left = MaxExceptions
    /\ cancelled = FALSE

\* the steps of the program itself
LoopStep ==
    \/ Construct
    \/ Fetch
    \/ SkipStation
    \/ PublishStart
    \/ PublishStation
    \/ Sleep
    \/ RecoveryWait

Next ==
    \/ Construct
    \/ Fetch
    \/ SkipStation
    \/ PublishStart
    \/ PublishStation
    \/ Sleep
    \/ RecoveryWait
    \/ UnexpectedException
    \/ Cancel

Spec == Init /\ [][Next]_vars

\* the scheduler runs the loop whenever it can take a step: each fetch,
\* publish and sleep returns; the sink is observed for the first station
LiveInit ==
    /\ Init
    /\ watched = ICAO_CODES[1]

LiveSpec == LiveInit /\ [][Next]_vars /\ WF_vars(LoopStep)

\* ------------------------------------------------------------------------
\* Claims about the loop (checked under Spec, C7 under LiveSpec)
\* ------------------------------------------------------------------------

\* the for loop of this cycle ran to its end
CycleDone == pc = "sleep" /\ ~exception_raised

\* C3: every entity handed to the sink carries the disposition that the
\* mapping gives for the flight category of its observation (VFR:
\* ASSUMED_FRIENDLY, MVFR: SUSPICIOUS, IFR or LIFR: HOSTILE); no publish path
\* sets the disposition independently of the category.
C3_DispositionFollowsCategory ==
    request # None =>
        LET e == request[1] IN
        /\ e.flight_condition = "VFR" => e.disposition = "ASSUMED_FRIENDLY"
        /\ e.flight_condition = "MVFR" => e.disposition = "SUSPICIOUS"
        /\ e.flight_condition \in {"IFR", "LIFR"} => e.disposition = "HOSTILE"

\* C4: within one cycle, when the publish of a station fails, every other
\* station of the cycle that has a valid observation is still attempted and
\* its success is the sink's answer for that station alone; a failed publish
\* never aborts the cycle.
C4_FailureIsolated ==
    CycleDone =>
        \A b \in Stations :
            metar_data[b].kind = "ok" =>
                /\ result[b] \in {"success", "failure"}
                /\ (result[b] = "success") <=> (sink_answer[b] = "ok")

\* C4 witness: a cycle ended in which the first station's publish failed and
\* the second station's publish succeeded
C4_Witness ==
    /\ CycleDone
    /\ result[ICAO_CODES[1]] = "failure"
    /\ result[ICAO_CODES[2]] = "success"

\* C5: when the fetch of a whole cycle fails, no entity is published in that
\* cycle, the loop does not terminate, and the next cycle starts after the
\* normal interval.
C5_FetchFailureSkipsCycle ==
    (fetch_failed /\ ~exception_raised) =>
        /\ request = None
        /\ \A s \in Stations :
              sink_answer[s] = "none" /\ result[s] \notin {"success", "failure"}
        /\ pc \in {"process", "sleep", "fetch", "stopped"}
        /\ pc = "stopped" => cancelled
        /\ pc = "fetch" => waited = IntervalSeconds

\* C5 witness: a cycle is about to start after a cycle whose fetch failed
C5_Witness ==
    /\ fetch_failed
    /\ ~exception_raised
    /\ pc = "fetch"
    /\ waited = IntervalSeconds

\* C6: when an unexpected exception escapes the fetching or processing of a
\* cycle the loop does not terminate: it waits the recovery wait of 5
\* minutes, shorter than the normal interval, then starts a new cycle.
C6_RecoveryWaitAfterException ==
    /\ RecoverySeconds = 5 * 60
    /\ RecoverySeconds < IntervalSeconds
    /\ exception_raised =>
          \/ pc = "recover"
          \/ pc = "fetch" /\ waited = RecoverySeconds
          \/ pc = "stopped" /\ cancelled

\* C7: the loop has no terminal state of its own: while every call returns
\* and nobody cancels, a new cycle begins again and again (the top of the
\* loop is left for the cycle's work and reached again after it); the loop
\* stops only by external cancellation or by a configuration error raised
\* before it starts.
C7_LoopNeverEnds ==
    /\ [](pc = "stopped" => cancelled)
    /\ [](pc = "config_error" => ~(env.LATTICE_URL /\ env.ENVIRONMENT_TOKEN))
    /\ [](pc \in {"init", "config_error", "fetch", "process", "sleep", "recover", "stopped"})
    /\ (pc \in {"process", "sleep", "recover"}) ~> (pc = "fetch" \/ cancelled)
    /\ (pc = "fetch") ~> (pc \in {"process", "sleep", "recover"} \/ cancelled)

\* C7 witness: a new cycle is about to start after a cycle in which an
\* unexpected exception was raised
C7_Witness ==
    /\ pc = "fetch"
    /\ exception_raised
    /\ ~cancelled

\* C8: across cycles every entity published for a station carries the same
\* identifier, derived from the station identifier alone, so each publish
\* supersedes the station's previous entity and the sink never holds two
\* distinct unexpired entities for one station.
C8_OneEntityPerStation == Len(sink) <= 1


\* the kinds of entry of a station whose observation could not be fetched
\* (no entry) or could not be parsed
Unavailable == {"missing", "error", "parse_error"}

\* C18: a station whose observation could not be parsed or fetched is not
\* published in that cycle; every other station of the cycle is still
\* processed; and the skip does not persist: a station is skipped only for
\* what this cycle's fetch returned for it.
C18_UnavailableStationSkipped ==
    /\ \A s \in Stations :
          metar_data[s].kind \in Unavailable =>
              /\ attempts[s] = 0
              /\ sink_answer[s] = "none"
              /\ result[s] \notin {"success", "failure"}
    /\ CycleDone =>
          \A b \in Stations :
              metar_data[b].kind = "ok" => result[b] \in {"success", "failure"}
    /\ \A s \in Stations :
          result[s] = "skipped" => metar_data[s].kind \in Unavailable

\* C19: within one cycle each station is handed to the sink at most once (a
\* failed publish is not retried in that cycle), and the cycle's success
\* count, zero when the for loop starts, equals the number of stations
\* whose publish succeeded in that cycle.
C19_PublishedAtMostOnce ==
    /\ \A s \in Stations : attempts[s] <= 1
    /\ successful_publishes = Cardinality({s \in Stations : sink_answer[s] = "ok"})
    /\ (pc = "process" /\ idx = 1) => successful_publishes = 0
    /\ \A s \in Stations : sink_answer[s] = "error" => result[s] = "failure"

\* C19 witness: a later cycle ended in which the first station's publish
\* failed, once, and the second station's succeeded: the count is 1
C19_Witness ==
    /\ CycleDone
    /\ waited = IntervalSeconds
    /\ attempts[ICAO_CODES[1]] = 1
    /\ sink_answer[ICAO_CODES[1]] = "error"
    /\ sink_answer[ICAO_CODES[2]] = "ok"
    /\ successful_publishes = 1

\* C20: a cycle whose only failures are a per-station parse or fetch error,
\* a whole-cycle fetch failure or a publish failure is followed by the
\* normal interval wait; the recovery wait is entered only after an
\* unexpected exception.
C20_RecoveryOnlyAfterException ==
    /\ pc = "recover" => exception_raised
    /\ (pc = "fetch" /\ waited = RecoverySeconds) => exception_raised
    /\ (pc = "fetch" /\ waited # 0 /\ ~exception_raised) => waited = IntervalSeconds
    /\ (pc = "sleep" /\ variant = "base") => ~exception_raised

\* C20 witness: a new cycle is about to start, the normal interval after a
\* cycle in which one publish failed and one station was unavailable
C20_Witness ==
    /\ pc = "fetch"
    /\ ~exception_raised
    /\ waited = IntervalSeconds
    /\ \E s \in Stations : result[s] = "failure"
    /\ \E s \in Stations : metar_data[s].kind \in Unavailable

\* C22: if the sink address or the primary credential is missing at
\* startup, constructing the integration fails and the loop never starts:
\* no fetch and no publish call is ever made.
C22_NoLoopWithoutConfiguration ==
    (~env.LATTICE_URL \/ ~env.ENVIRONMENT_TOKEN) =>
        /\ pc \in {"init", "config_error"}
        /\ request = None
        /\ \A s \in Stations : attempts[s] = 0 /\ metar_data[s].kind = "missing"
        /\ ~fetch_failed
        /\ waited = 0
        /\ sink = <<>>

\* C22 witness: the constructor failed with the address set and the
\* credential missing
C22_Witness ==
    /\ pc = "config_error"
    /\ env.LATTICE_URL
    /\ ~env.ENVIRONMENT_TOKEN

\* C21: at most one cycle is in progress at any time: the fetch of the next
\* cycle begins only after every publish call of the current cycle has
\* returned and the following interval wait or recovery wait has elapsed.
C21_CyclesDoNotOverlap ==
    /\ [](pc \in {"init", "fetch", "sleep", "recover"} => in_flight = {})
    /\ [][(pc # "fetch" /\ pc' = "fetch") =>
             \/ pc = "init"
             \/ pc = "sleep" /\ waited' = IntervalSeconds
             \/ pc = "recover" /\ waited' = RecoverySeconds]_vars
    /\ [][(pc = "fetch" /\ pc' # "fetch") => in_flight = {}]_vars

\* C21 witness: a cycle is about to start, the interval after a cycle in
\* which both stations were handed to the sink and both calls returned
C21_Witness ==
    /\ pc = "fetch"
    /\ waited = IntervalSeconds
    /\ \A s \in Stations : attempts[s] = 1 /\ sink_answer[s] # "none"
    /\ in_flight = {}

\* C23: once external cancellation is signalled the loop starts no further
\* cycle, and a publish call that is in flight when the signal arrives is
\* allowed to finish rather than being abandoned mid-call: when the loop
\* has stopped every call it started has returned.
C23_CancelLetsPublishFinish ==
    cancelled =>
        /\ pc = "stopped"
        /\ in_flight = {}
        /\ \A s \in Stations : attempts[s] > 0 => sink_answer[s] # "none"

\* C29: every channel that a publish call opens to the sink is closed by
\* the time that call returns, on the failure path as well as on the
\* success path, so after any sequence of publish calls no channel remains
\* open.
C29_ChannelsClosed ==
    \A s \in Stations : s \notin in_flight => channel[s] # "open"

====
